---- MODULE Spec2Model ----
(***************************************************************************)
(* Skiplist-CPP: the skip list index (SkipList<int, std::string>) and the  *)
(* key-value store built on it (KVStore<int, std::string>), as a state     *)
(* machine.  A SkipList object is a record: the set of allocated nodes,    *)
(* the nodes' fields as functions over that set, the header's successor    *)
(* array, current_level_ and element_count_.                               *)
(***************************************************************************)
EXTENDS Integers, Sequences, FiniteSets, TLC

\* ------------------------------------------------------------- bounds
\* MAX_LEVEL is 32 in the source; the model keeps the name and scales it down.
MAX_LEVEL == 2
\* keys are the ints 1..MaxKey
MaxKey == 3
\* the calls the threads make where they make finitely many
MaxCalls == 3

Keys == 1..MaxKey
\* std::string values, as sequences of characters
Values == {<<"a">>, <<"b">>}
\* the node arena: one address per key, and one spare
NodeIds == 1..(MaxKey + 1)
Levels == 0..MAX_LEVEL

\* ------------------------------------------------------------- the heap
NULL == -1
header_ == 0

\* Node(k, v, level): forward_ is resized to level + 1 null successors
NewNode(s, id, k, v, level) ==
  [s EXCEPT !.allocated = @ \cup {id},
            !.key_ = @ @@ (id :> k),
            !.value_ = @ @@ (id :> v),
            !.node_level_ = @ @@ (id :> level),
            !.forward_ = @ @@ (id :> [i \in 0..level |-> NULL])]

\* delete node: the node's storage is gone
DeleteNode(s, id) ==
  [s EXCEPT !.allocated = @ \ {id},
            !.key_ = [n \in (DOMAIN @) \ {id} |-> @[n]],
            !.value_ = [n \in (DOMAIN @) \ {id} |-> @[n]],
            !.node_level_ = [n \in (DOMAIN @) \ {id} |-> @[n]],
            !.forward_ = [n \in (DOMAIN @) \ {id} |-> @[n]]]

\* SkipList(): an empty index whose header has MAX_LEVEL + 1 null successors
NewSkipList ==
  [allocated |-> {},
   key_ |-> [n \in {} |-> NULL],
   value_ |-> [n \in {} |-> <<>>],
   node_level_ |-> [n \in {} |-> 0],
   forward_ |-> (header_ :> [i \in 0..MAX_LEVEL |-> NULL]),
   current_level_ |-> 0,
   element_count_ |-> 0]

\* the address operator new returns: a free one.  Addresses are only ever compared
\* for equality, so which free one is a symmetry: the one numbered like the key when
\* it is free, else the lowest.
FreeIds(s) == NodeIds \ s.allocated
Alloc(s, key) ==
  IF key \in FreeIds(s)
  THEN key
  ELSE CHOOSE id \in FreeIds(s) : \A other \in FreeIds(s) : id <= other

\* ------------------------------------------------------------- get_random_level
\* the draws distribution(generator) < P_FACTOR would give, as far as they matter:
\* n successes, then failures
FlipSeqs == {[i \in 1..(MAX_LEVEL + 1) |-> i <= n] : n \in 0..(MAX_LEVEL + 1)}

RECURSIVE CountSuccesses(_, _)
CountSuccesses(flips, lvl) ==
  IF flips[lvl + 1] /\ lvl < MAX_LEVEL
  THEN CountSuccesses(flips, lvl + 1)
  ELSE lvl

\* (mutant) the test lvl < MAX_LEVEL is left out: a further success counts
get_random_levelUntruncated(flips) ==
  CountSuccesses(flips, 0) + (IF flips[MAX_LEVEL + 1] THEN 1 ELSE 0)

get_random_level(flips) == CountSuccesses(flips, 0)

\* no draw is made
NoFlips == [i \in 1..(MAX_LEVEL + 1) |-> FALSE]

\* ------------------------------------------------------------- the walk
\* while (current->forward_[i] && current->forward_[i]->key_ < key)
\* (mutant) the walk also steps over an equal key
KeyLessOrEqual(a, b) == a <= b

KeyLess(a, b) == a < b

RECURSIVE WalkRight(_, _, _, _)
WalkRight(s, current, i, key) ==
  LET next == s.forward_[current][i] IN
  IF next # NULL /\ KeyLess(s.key_[next], key)
  THEN WalkRight(s, next, i, key)
  ELSE current

\* (mutant) the walk right is made on the top level only
RECURSIVE WalkDownTopOnly(_, _, _, _, _)
WalkDownTopOnly(s, current, i, key, update) ==
  IF i < 0
  THEN update
  ELSE LET c == IF i = s.current_level_ THEN WalkRight(s, current, i, key) ELSE current
       IN WalkDownTopOnly(s, c, i - 1, key, [update EXCEPT ![i] = c])

\* for (i = current_level_; i >= 0; --i) { walk right; update[i] = current; }
RECURSIVE WalkDown(_, _, _, _, _)
WalkDown(s, current, i, key, update) ==
  IF i < 0
  THEN update
  ELSE LET c == WalkRight(s, current, i, key) IN
       WalkDown(s, c, i - 1, key, [update EXCEPT ![i] = c])

\* std::vector<Node*> update(MAX_LEVEL + 1, nullptr), filled by the walk
FindUpdate(s, key) ==
  WalkDown(s, header_, s.current_level_, key, [i \in 0..MAX_LEVEL |-> NULL])

\* ------------------------------------------------------------- search_element
search_element(s, key, value) ==
  LET update == FindUpdate(s, key)
      current == s.forward_[update[0]][0]
  IN IF current # NULL /\ s.key_[current] = key
     THEN [ok |-> TRUE, value |-> s.value_[current]]
     ELSE [ok |-> FALSE, value |-> value]

\* ------------------------------------------------------------- insert_element
\* if (random_level > current_level_) update[i] = header_ for the new levels
RaiseUpdate(s, update, random_level) ==
  [i \in 0..MAX_LEVEL |->
     IF i > s.current_level_ /\ i <= random_level THEN header_ ELSE update[i]]

\* (mutant) current_level_ = random_level is left out
RaiseLevelKeeping(s, random_level) == s.current_level_

RaiseLevel(s, random_level) ==
  IF random_level > s.current_level_ THEN random_level ELSE s.current_level_

\* for (i = 0; i <= random_level; i++) { new->forward_[i] = update[i]->forward_[i];
\*                                        update[i]->forward_[i] = new; }
\* (mutant) the splice loop stops one level early
SpliceLastShort(random_level) == random_level - 1

SpliceLast(random_level) == random_level

RECURSIVE Splice(_, _, _, _, _)
Splice(s, update, new_node, i, last) ==
  IF i > last
  THEN s
  ELSE LET s1 == [s EXCEPT !.forward_[new_node][i] = s.forward_[update[i]][i]]
           s2 == [s1 EXCEPT !.forward_[update[i]][i] = new_node]
       IN Splice(s2, update, new_node, i + 1, last)

\* (mutant) the update path counts the key again
UpdateInPlaceCounting(s, current, value) ==
  [s EXCEPT !.value_[current] = value, !.element_count_ = @ + 1]

\* the key is already there: current->value_ = value, nothing else
UpdateInPlace(s, current, value) == [s EXCEPT !.value_[current] = value]

\* (mutant) the test for an equal key is left out: every insert makes a node
KeyPresentNever(s, current, key) == FALSE

\* if (current != nullptr && current->key_ == key)
KeyPresent(s, current, key) == current # NULL /\ s.key_[current] = key

insert_element(s, key, value, flips) ==
  LET update0 == FindUpdate(s, key)
      current == s.forward_[update0[0]][0]
  IN IF KeyPresent(s, current, key)
     THEN [s |-> UpdateInPlace(s, current, value), ok |-> TRUE]
     ELSE LET random_level == get_random_level(flips)
              update == RaiseUpdate(s, update0, random_level)
              s1 == [s EXCEPT !.current_level_ = RaiseLevel(s, random_level)]
              new_node == Alloc(s1, key)
              s2 == NewNode(s1, new_node, key, value, random_level)
              s3 == Splice(s2, update, new_node, 0, SpliceLast(random_level))
          IN [s |-> [s3 EXCEPT !.element_count_ = @ + 1], ok |-> TRUE]

\* ------------------------------------------------------------- delete_element
\* for (i = 0; i <= current_level_; ++i) { if (update[i]->forward_[i] != current) break;
\*                                         update[i]->forward_[i] = current->forward_[i]; }
\* (mutant) only the level-0 predecessor is rewired
UnlinkLevel0(s, update, current, i) ==
  IF s.forward_[update[0]][0] # current
  THEN s
  ELSE [s EXCEPT !.forward_[update[0]][0] = s.forward_[current][0]]

RECURSIVE Unlink(_, _, _, _)
Unlink(s, update, current, i) ==
  IF i > s.current_level_
  THEN s
  ELSE IF s.forward_[update[i]][i] # current
       THEN s
       ELSE Unlink([s EXCEPT !.forward_[update[i]][i] = s.forward_[current][i]],
                   update, current, i + 1)

\* (mutant) if instead of while: the level is lowered once at most
LowerLevelOnce(s) ==
  IF s.current_level_ > 0 /\ s.forward_[header_][s.current_level_] = NULL
  THEN [s EXCEPT !.current_level_ = @ - 1]
  ELSE s

\* while (current_level_ > 0 && header_->forward_[current_level_] == nullptr) --current_level_;
RECURSIVE LowerLevel(_)
LowerLevel(s) ==
  IF s.current_level_ > 0 /\ s.forward_[header_][s.current_level_] = NULL
  THEN LowerLevel([s EXCEPT !.current_level_ = @ - 1])
  ELSE s

\* (mutant) the key comparison is left out
NotFoundNullOnly(s, current, key) == current = NULL

\* if (current == nullptr || current->key_ != key) return false;
NotFound(s, current, key) == current = NULL \/ s.key_[current] # key

\* (mutant) the node is unlinked and deleted but --element_count_ is left out
delete_elementKeepingCount(s, key) ==
  LET update == FindUpdate(s, key)
      current == s.forward_[update[0]][0]
  IN IF NotFound(s, current, key)
     THEN [s |-> s, ok |-> FALSE]
     ELSE [s |-> DeleteNode(LowerLevel(Unlink(s, update, current, 0)), current),
           ok |-> TRUE]

delete_element(s, key) ==
  LET update == FindUpdate(s, key)
      current == s.forward_[update[0]][0]
  IN IF NotFound(s, current, key)
     THEN [s |-> s, ok |-> FALSE]
     ELSE LET s1 == Unlink(s, update, current, 0)
              s2 == LowerLevel(s1)
              s3 == DeleteNode(s2, current)
          IN [s |-> [s3 EXCEPT !.element_count_ = @ - 1], ok |-> TRUE]

\* whether delete_element(key) finds the key and leaves its unlink loop by the break:
\* at some level up to current_level_ the predecessor does not point to the target
UnlinkBreaks(s, key) ==
  LET update == FindUpdate(s, key)
      current == s.forward_[update[0]][0]
  IN /\ ~NotFound(s, current, key)
     /\ \E i \in 0..s.current_level_ : s.forward_[update[i]][i] # current

\* ------------------------------------------------------------- clear
\* while (current) { next = current->forward_[0]; delete current; current = next; }
RECURSIVE FreeChain(_, _)
FreeChain(s, current) ==
  IF current = NULL
  THEN s
  ELSE LET next == s.forward_[current][0] IN FreeChain(DeleteNode(s, current), next)

\* (mutant) only the level-0 successor of the header is emptied
ResetHeaderLevel0(s) == [s EXCEPT !.forward_[header_][0] = NULL]

\* std::fill(header_->forward_.begin(), header_->forward_.end(), nullptr)
ResetHeader(s) ==
  [s EXCEPT !.forward_[header_] = [i \in DOMAIN @ |-> NULL]]

clear(s) ==
  LET s1 == FreeChain(s, s.forward_[header_][0])
      s2 == ResetHeader(s1)
  IN [s2 EXCEPT !.current_level_ = 0, !.element_count_ = 0]

\* ------------------------------------------------------------- process_all
\* the (key, value) pairs func is called with, in call order
RECURSIVE Visit(_, _)
Visit(s, node) ==
  IF node = NULL
  THEN <<>>
  ELSE <<[key |-> s.key_[node], value |-> s.value_[node]]>>
         \o Visit(s, s.forward_[node][0])

process_all(s) == Visit(s, s.forward_[header_][0])

\* ------------------------------------------------------------- KVStore: text
\* KVStore<int, std::string>: the snapshot file is a sequence of characters
Delimiter == ":"
NewLine == "\n"
DigitChars == <<"0", "1", "2", "3", "4", "5", "6", "7", "8", "9">>
WhiteSpace == {" ", "\t", NewLine}

IsDigit(c) == \E d \in DOMAIN DigitChars : DigitChars[d] = c
DigitValue(c) == (CHOOSE d \in DOMAIN DigitChars : DigitChars[d] = c) - 1

\* out_file << key, for an int key
RECURSIVE FormatDigits(_)
FormatDigits(n) ==
  IF n < 10
  THEN <<DigitChars[n + 1]>>
  ELSE FormatDigits(n \div 10) \o <<DigitChars[(n % 10) + 1]>>

FormatInt(n) == IF n < 0 THEN <<"-">> \o FormatDigits(0 - n) ELSE FormatDigits(n)

\* ss >> key, for an int key: leading white space is skipped, then an optional sign
\* and the digits that follow are read; with no digit the extraction fails and the
\* key is 0
RECURSIVE SkipWhiteSpace(_)
SkipWhiteSpace(str) ==
  IF str # <<>> /\ Head(str) \in WhiteSpace THEN SkipWhiteSpace(Tail(str)) ELSE str

RECURSIVE ReadDigits(_, _)
ReadDigits(str, acc) ==
  IF str # <<>> /\ IsDigit(Head(str))
  THEN ReadDigits(Tail(str), acc * 10 + DigitValue(Head(str)))
  ELSE acc

ParseInt(key_str) ==
  LET str == SkipWhiteSpace(key_str)
      negative == str # <<>> /\ Head(str) = "-"
      signed == str # <<>> /\ Head(str) \in {"-", "+"}
      digits == IF signed THEN Tail(str) ELSE str
  IN IF digits = <<>> \/ ~IsDigit(Head(digits))
     THEN 0
     ELSE IF negative THEN 0 - ReadDigits(digits, 0) ELSE ReadDigits(digits, 0)

\* out_file << key << ":" << value << "\n"
FormatEntry(key, value) == FormatInt(key) \o <<Delimiter>> \o value \o <<NewLine>>

RECURSIVE FormatEntries(_)
FormatEntries(entries) ==
  IF entries = <<>>
  THEN <<>>
  ELSE FormatEntry(Head(entries).key, Head(entries).value)
         \o FormatEntries(Tail(entries))

\* the file: whether it exists at file_path_, and its characters
NoFile == [exists |-> FALSE, text |-> <<>>]

\* dump(): the file is opened for writing, which empties it, and every pair that
\* process_all visits is written; when the file does not open nothing is written
\* (mutant) the file is opened for appending
dumpAppending(s, f, opens) ==
  IF ~opens
  THEN f
  ELSE [exists |-> TRUE, text |-> f.text \o FormatEntries(process_all(s))]

dump(s, f, opens) ==
  IF ~opens
  THEN f
  ELSE [exists |-> TRUE, text |-> FormatEntries(process_all(s))]

\* std::getline: the lines of the text, without their line ends
RECURSIVE GetLines(_, _)
GetLines(text, line) ==
  IF text = <<>>
  THEN IF line = <<>> THEN <<>> ELSE <<line>>
  ELSE IF Head(text) = NewLine
       THEN <<line>> \o GetLines(Tail(text), <<>>)
       ELSE GetLines(Tail(text), Append(line, Head(text)))

\* line.find(':'): the position of the first delimiter, counted from 0, or npos
npos == -1

RECURSIVE FindFrom(_, _, _)
FindFrom(line, ch, pos) ==
  IF pos >= Len(line)
  THEN npos
  ELSE IF line[pos + 1] = ch THEN pos ELSE FindFrom(line, ch, pos + 1)

\* (mutant) line.rfind(':'): the position of the last delimiter
RECURSIVE FindBack(_, _, _)
FindBack(line, ch, pos) ==
  IF pos < 0
  THEN npos
  ELSE IF line[pos + 1] = ch THEN pos ELSE FindBack(line, ch, pos - 1)

FindLast(line, ch) == FindBack(line, ch, Len(line) - 1)

Find(line, ch) == FindFrom(line, ch, 0)

\* line.substr(0, pos) and line.substr(pos + 1)
KeyStr(line, pos) == SubSeq(line, 1, pos)
\* (mutant) the value text starts at the delimiter
ValueStrFromDelimiter(line, pos) == SubSeq(line, pos + 1, Len(line))

ValueStr(line, pos) == SubSeq(line, pos + 2, Len(line))

\* the lines load() inserts: those that hold the delimiter
HasDelimiter(line) == Find(line, Delimiter) # npos

RECURSIVE CountEntries(_)
CountEntries(lines) ==
  IF lines = <<>>
  THEN 0
  ELSE (IF HasDelimiter(Head(lines)) THEN 1 ELSE 0) + CountEntries(Tail(lines))

\* (mutant) the loop is left at the first line without the delimiter
RECURSIVE LoadLinesStopping(_, _, _, _)
LoadLinesStopping(s, lines, draws, n) ==
  IF lines = <<>> \/ Find(Head(lines), Delimiter) = npos
  THEN s
  ELSE LET line == Head(lines)
           pos == Find(line, Delimiter)
           key == ParseInt(SubSeq(line, 1, pos))
           value == SubSeq(line, pos + 2, Len(line))
       IN LoadLinesStopping(insert_element(s, key, value, draws[n]).s,
                            Tail(lines), draws, n + 1)

\* while (std::getline(in_file, line)): a line with the delimiter is split at the
\* first one, parsed and inserted; draws[n] are the draws of the n-th insert
RECURSIVE LoadLines(_, _, _, _)
LoadLines(s, lines, draws, n) ==
  IF lines = <<>>
  THEN s
  ELSE LET line == Head(lines)
           pos == Find(line, Delimiter)
       IN IF pos # npos
          THEN LET key == ParseInt(KeyStr(line, pos))
                   value == ValueStr(line, pos)
               IN LoadLines(insert_element(s, key, value, draws[n]).s,
                            Tail(lines), draws, n + 1)
          ELSE LoadLines(s, Tail(lines), draws, n)

\* (mutant) the text is read whether or not the file opened
loadIgnoringOpen(s, f, opens, draws) ==
  IF ~f.exists
  THEN s
  ELSE LET lines == GetLines(f.text, <<>>) IN
       LoadLines(s, lines, [n \in 1..Len(lines) |-> NoFlips], 1)

\* (mutant) the index is emptied when the file does not open
loadClearingUnopened(s, f, opens, draws) ==
  IF ~(f.exists /\ opens)
  THEN clear(s)
  ELSE LoadLines(s, GetLines(f.text, <<>>), draws, 1)

\* load(): nothing is read when the file does not open
load(s, f, opens, draws) ==
  IF ~(f.exists /\ opens)
  THEN s
  ELSE LoadLines(s, GetLines(f.text, <<>>), draws, 1)

\* the keys of the lines that hold the delimiter, in their order
RECURSIVE LineKeys(_)
LineKeys(lines) ==
  IF lines = <<>>
  THEN <<>>
  ELSE LET line == Head(lines)
           pos == Find(line, Delimiter)
       IN (IF pos # npos THEN <<ParseInt(KeyStr(line, pos))>> ELSE <<>>)
            \o LineKeys(Tail(lines))

\* the draws a load of file f into index s may make: one sequence for each line it
\* inserts, and get_random_level is called only for a key that is not yet there
LoadDraws(s, f, opens) ==
  IF ~(f.exists /\ opens)
  THEN {<<>>}
  ELSE LET keys == LineKeys(GetLines(f.text, <<>>))
           there(n) == \/ search_element(s, keys[n], <<>>).ok
                       \/ \E m \in 1..(n - 1) : keys[m] = keys[n]
       IN {draws \in [1..CountEntries(GetLines(f.text, <<>>)) -> FlipSeqs] :
             \A n \in DOMAIN draws : there(n) => draws[n] = NoFlips}

\* ------------------------------------------------------------- observers
\* the nodes on the successor chain of level i, from the header
RECURSIVE ChainFrom(_, _, _)
ChainFrom(s, node, i) ==
  IF node = NULL THEN {} ELSE {node} \cup ChainFrom(s, s.forward_[node][i], i)

Chain(s, i) == ChainFrom(s, s.forward_[header_][i], i)

\* the keys held by the nodes of level 0
KeysOf(s) == {s.key_[n] : n \in Chain(s, 0)}

\* the node of level 0 that holds key
NodeOf(s, key) == CHOOSE n \in Chain(s, 0) : s.key_[n] = key

\* ------------------------------------------------------------- state
VARIABLES
  skip_list_,   \* the SkipList object and its nodes
  ret,          \* the last call: operation, arguments, what it returned (ok, and for
                \* search the value), and whether its key was in the index before
                \* (for clear: whether a level above 0 was in use before; for dump:
                \* whether the file had content before); for delete_element also
                \* whether its unlink loop was left by the break
  ref,          \* reference map of the calls made so far: key -> value
  file,         \* the file at the KVStore's file_path_
  alive,        \* whether the KVStore object exists
  dumped,       \* what process_all visited in the last dump that opened the file
  th,           \* each thread's call in progress: position, arguments, locals, result
  mutex_,       \* the std::shared_mutex: its exclusive owner and its shared owners
  ub,           \* the operations that ran into a data race, if any did
  hist          \* what the threads have called so far, and where their calls
                \* are counted, how many

vars == <<skip_list_, ret, ref, file, alive, dumped, th, mutex_, ub, hist>>
storeVars == <<file, alive, dumped>>
threadVars == <<th, mutex_, ub, hist>>

Threads == {"t1", "t2"}
NoThread == "none"

\* a thread that is in no call
Idle ==
  [pc |-> "idle", op |-> "none", key |-> 0, value |-> <<>>, node |-> NULL,
   ok |-> FALSE, got |-> <<>>, expect |-> [ok |-> FALSE, value |-> <<>>]]

NoCall == [op |-> "none", key |-> 0, value |-> <<>>, ok |-> FALSE, present |-> FALSE]

\* KVStore(path) on a path with no file: load() returns at once, the index is empty
Init ==
  /\ skip_list_ = load(NewSkipList, NoFile, TRUE, <<>>)
  /\ ret = NoCall
  /\ ref = [k \in {} |-> <<>>]
  /\ file = NoFile
  /\ alive = TRUE
  /\ dumped = <<>>
  /\ th = [t \in Threads |-> Idle]
  /\ mutex_ = [writer |-> NoThread, readers |-> {}]
  /\ ub = {}
  /\ hist = [keys |-> {}, insertsOnly |-> TRUE, overlapped |-> FALSE, calls |-> 0]

\* ------------------------------------------------------------- calls of one caller
\* insert_element calls get_random_level only past the return of its update path
Draws(s, key) ==
  IF search_element(s, key, <<>>).ok THEN {NoFlips} ELSE FlipSeqs

InsertElement(key, value, flips) ==
  LET r == insert_element(skip_list_, key, value, flips) IN
  /\ FreeIds(skip_list_) # {}
  /\ skip_list_' = r.s
  /\ ret' = [op |-> "insert", key |-> key, value |-> value, ok |-> r.ok,
             present |-> key \in KeysOf(skip_list_)]
  /\ ref' = [k \in DOMAIN ref \cup {key} |-> IF k = key THEN value ELSE ref[k]]
  /\ UNCHANGED <<storeVars, threadVars>>

\* (mutant) the assignment of the found value is turned round:
\* current->value_ = value
SearchElementStoring(key) ==
  LET r == search_element(skip_list_, key, <<>>) IN
  /\ ret' = [op |-> "search", key |-> key, value |-> r.value, ok |-> r.ok,
             present |-> key \in KeysOf(skip_list_)]
  /\ skip_list_' = IF r.ok
                   THEN [skip_list_ EXCEPT !.value_[NodeOf(skip_list_, key)] = <<>>]
                   ELSE skip_list_
  /\ UNCHANGED <<ref, storeVars, threadVars>>

SearchElement(key) ==
  LET r == search_element(skip_list_, key, <<>>) IN
  /\ ret' = [op |-> "search", key |-> key, value |-> r.value, ok |-> r.ok,
             present |-> key \in KeysOf(skip_list_)]
  /\ UNCHANGED <<skip_list_, ref>>
  /\ UNCHANGED <<storeVars, threadVars>>

DeleteElement(key) ==
  LET r == delete_element(skip_list_, key) IN
  /\ skip_list_' = r.s
  /\ ret' = [op |-> "delete", key |-> key, value |-> <<>>, ok |-> r.ok,
             present |-> key \in KeysOf(skip_list_),
             broke |-> UnlinkBreaks(skip_list_, key)]
  /\ ref' = [k \in DOMAIN ref \ {key} |-> ref[k]]
  /\ UNCHANGED <<storeVars, threadVars>>

Clear ==
  /\ skip_list_' = clear(skip_list_)
  /\ ret' = [op |-> "clear", key |-> 0, value |-> <<>>, ok |-> TRUE,
             present |-> skip_list_.current_level_ > 0]
  /\ ref' = [k \in {} |-> <<>>]
  /\ UNCHANGED <<storeVars, threadVars>>

Next ==
  \/ \E key \in Keys, value \in Values :
       \E flips \in Draws(skip_list_, key) : InsertElement(key, value, flips)
  \/ \E key \in Keys : SearchElement(key)
  \/ \E key \in Keys : DeleteElement(key)
  \/ Clear

Spec == Init /\ [][Next]_vars

\* ------------------------------------------------------------- calls on the KVStore
StoreKeys == {1, 2}
\* the calls of the store that hand a result to their caller: bool get(key, value);
\* put, del, clear, dump and load are void
StoreReturns == {"get"}
\* values: plain, holding the delimiter, holding a line end
StoreValues == {<<"a">>, <<"a", Delimiter, "b">>, <<"a", NewLine, "b">>}

\* put: skip_list_->insert_element(key, value), the result dropped
Put(key, value, flips) ==
  /\ alive
  /\ FreeIds(skip_list_) # {}
  /\ skip_list_' = insert_element(skip_list_, key, value, flips).s
  /\ ret' = [op |-> "put", key |-> key, value |-> value, ok |-> TRUE,
             present |-> key \in KeysOf(skip_list_)]
  /\ UNCHANGED <<threadVars, ref, file, alive, dumped>>

\* get: return skip_list_->search_element(key, value)
Get(key) ==
  LET r == search_element(skip_list_, key, <<>>) IN
  /\ alive
  /\ ret' = [op |-> "get", key |-> key, value |-> r.value, ok |-> r.ok,
             present |-> key \in KeysOf(skip_list_)]
  /\ UNCHANGED <<threadVars, skip_list_, ref, file, alive, dumped>>

\* del: skip_list_->delete_element(key), the result dropped
Del(key) ==
  /\ alive
  /\ skip_list_' = delete_element(skip_list_, key).s
  /\ ret' = [op |-> "del", key |-> key, value |-> <<>>, ok |-> TRUE,
             present |-> key \in KeysOf(skip_list_)]
  /\ UNCHANGED <<threadVars, ref, file, alive, dumped>>

\* clear: skip_list_->clear()
StoreClear ==
  /\ alive
  /\ skip_list_' = clear(skip_list_)
  /\ ret' = [op |-> "clear", key |-> 0, value |-> <<>>, ok |-> TRUE,
             present |-> FALSE]
  /\ UNCHANGED <<threadVars, ref, file, alive, dumped>>

\* dump(), called by hand; ok tells whether the file opened
Dump(opens) ==
  /\ alive
  /\ file' = dump(skip_list_, file, opens)
  /\ dumped' = IF opens THEN process_all(skip_list_) ELSE dumped
  /\ ret' = [op |-> "dump", key |-> 0, value |-> <<>>, ok |-> opens,
             present |-> file.text # <<>>]
  /\ UNCHANGED <<threadVars, skip_list_, ref, alive>>

\* ~KVStore(): dump(), then delete skip_list_ (clear(), delete header_)
Teardown(opens) ==
  /\ alive
  /\ file' = dump(skip_list_, file, opens)
  /\ dumped' = IF opens THEN process_all(skip_list_) ELSE dumped
  /\ skip_list_' = clear(skip_list_)
  /\ alive' = FALSE
  /\ ret' = [op |-> "teardown", key |-> 0, value |-> <<>>, ok |-> opens,
             present |-> FALSE]
  /\ UNCHANGED <<ref, threadVars>>

\* KVStore(path): new SkipList, then load(); ok tells whether the file opened
Construct(opens, draws) ==
  /\ ~alive
  /\ skip_list_' = load(NewSkipList, file, opens, draws)
  /\ alive' = TRUE
  /\ ret' = [op |-> "construct", key |-> 0, value |-> <<>>,
             ok |-> file.exists /\ opens, present |-> FALSE]
  /\ UNCHANGED <<threadVars, ref, file, dumped>>

\* load(), called by hand on the store: the entries of the file are put over
\* those of the index; ok tells whether the file opened
Load(opens, draws) ==
  /\ alive
  /\ skip_list_' = load(skip_list_, file, opens, draws)
  /\ ret' = [op |-> "load", key |-> 0, value |-> <<>>,
             ok |-> file.exists /\ opens, present |-> FALSE]
  /\ UNCHANGED <<threadVars, ref, file, alive, dumped>>

NextStore ==
  \/ \E key \in StoreKeys, value \in StoreValues :
       \E flips \in Draws(skip_list_, key) : Put(key, value, flips)
  \/ \E key \in StoreKeys : Get(key)
  \/ \E key \in StoreKeys : Del(key)
  \/ StoreClear
  \/ \E opens \in BOOLEAN : Dump(opens)
  \/ \E opens \in BOOLEAN : Teardown(opens)
  \/ \E opens \in BOOLEAN :
       \E draws \in LoadDraws(NewSkipList, file, opens) : Construct(opens, draws)
  \/ \E opens \in BOOLEAN :
       \E draws \in LoadDraws(skip_list_, file, opens) : Load(opens, draws)

SpecStore == Init /\ [][NextStore]_vars

\* ------------------------------------------------------------- threads on one SkipList
ConcKeys == {1, 2}
ConcValues == {<<"a">>, <<"b">>}

\* std::shared_lock / std::unique_lock on mutex_: when the lock can be taken
CanLockShared(m) == m.writer = NoThread
\* (mutant) insert and delete take the lock as search does
CanLockUniqueAsShared(m) == m.writer = NoThread

CanLockUnique(m) == m.writer = NoThread /\ m.readers = {}

\* (mutant) only a shared hold is given back at the return
UnlockSharedOnly(m, t) == [writer |-> m.writer, readers |-> m.readers \ {t}]

\* the lock object goes out of scope at the return
Unlock(m, t) ==
  [writer |-> IF m.writer = t THEN NoThread ELSE m.writer,
   readers |-> m.readers \ {t}]

\* a clear is between its first read and its last write
InClear(t) == th[t].pc \in {"c_loop", "c_fill", "c_reset"}
\* a process_all is between its first read and its last
InTraverse(t) == th[t].pc = "p_loop"
\* a search, insert or delete is between taking the lock and releasing it
InSearch(t) == th[t].pc = "body" /\ th[t].op = "search"
InWrite(t) == th[t].pc = "body" /\ th[t].op \in {"insert", "delete"}
Inside(t) == InClear(t) \/ InTraverse(t) \/ InSearch(t) \/ InWrite(t)

\* operations that only read the nodes and the header
ReadOnly == {"search", "traverse"}

\* whether op by thread t writes nothing: search and traverse, and a
\* delete_element whose key is absent (it returns false before its first write)
OnlyReads(t, op) ==
  \/ op \in ReadOnly
  \/ /\ op = "delete"
     /\ \A u \in Threads : ~InClear(u)
     /\ ~search_element(skip_list_, th[t].key, <<>>).ok

\* the threads whose operation in progress touches, with no ordering by mutex_,
\* memory that op by thread t reads or writes, one of the two writing: a data race
Racing(t, op) ==
  {u \in Threads \ {t} :
     Inside(u) /\ ~(OnlyReads(t, op) /\ OnlyReads(u, th[u].op))}

Running == ub = {}

\* the value the calls made so far leave at key
Lookup(key) ==
  IF key \in DOMAIN ref
  THEN [ok |-> TRUE, value |-> ref[key]]
  ELSE [ok |-> FALSE, value |-> <<>>]

\* what the threads have called once thread t has called op(key)
HistAfter(t, op, key, calls) ==
  [keys |-> IF op = "insert" /\ hist.insertsOnly
            THEN hist.keys \cup {key}
            ELSE IF op = "delete" THEN {} ELSE hist.keys,
   insertsOnly |-> hist.insertsOnly /\ op # "delete",
   overlapped |-> \/ hist.overlapped
                  \/ /\ op = "insert" /\ hist.insertsOnly
                     /\ \E u \in Threads \ {t} :
                          th[u].op = "insert" /\ th[u].pc \in {"lock", "body"},
   calls |-> calls]

\* the thread calls search_element, insert_element or delete_element and comes
\* to the lock
Call(t, op, key, value) ==
  /\ Running
  /\ th[t].pc = "idle"
  /\ op = "insert" => Cardinality(FreeIds(skip_list_)) >= Cardinality(Threads)
  /\ th' = [th EXCEPT ![t] = [Idle EXCEPT !.pc = "lock", !.op = op, !.key = key,
                                         !.value = value]]
  /\ hist' = HistAfter(t, op, key, hist.calls)
  /\ UNCHANGED <<skip_list_, ret, ref, storeVars, mutex_, ub>>

\* std::shared_lock<std::shared_mutex> lock(mutex_)
LockShared(t) ==
  /\ Running
  /\ th[t].pc = "lock" /\ th[t].op = "search"
  /\ CanLockShared(mutex_)
  /\ mutex_' = [mutex_ EXCEPT !.readers = @ \cup {t}]
  /\ th' = [th EXCEPT ![t].pc = "body", ![t].expect = Lookup(th[t].key)]
  /\ UNCHANGED <<skip_list_, ret, ref, storeVars, ub, hist>>

\* std::unique_lock<std::shared_mutex> lock(mutex_)
LockUnique(t) ==
  /\ Running
  /\ th[t].pc = "lock" /\ th[t].op \in {"insert", "delete"}
  /\ CanLockUnique(mutex_)
  /\ mutex_' = [mutex_ EXCEPT !.writer = t]
  /\ th' = [th EXCEPT ![t].pc = "body"]
  /\ UNCHANGED <<skip_list_, ret, ref, storeVars, ub, hist>>

\* the thread's operation races with those of Racing(t, op): the behaviour is
\* undefined, and anything may be returned
Undefined(t, op) ==
  /\ ub' = {op} \cup {th[u].op : u \in Racing(t, op)}
  /\ \E ok \in BOOLEAN, value \in ConcValues \cup {<<>>} :
       th' = [th EXCEPT ![t].pc = "ret", ![t].op = op, ![t].ok = ok, ![t].got = value]
  /\ UNCHANGED <<skip_list_, ret, ref, storeVars, mutex_, hist>>

\* search_element under the shared lock: walk, compare, return
SearchBody(t) ==
  /\ Running
  /\ InSearch(t)
  /\ IF Racing(t, "search") = {}
     THEN LET r == search_element(skip_list_, th[t].key, <<>>) IN
          /\ th' = [th EXCEPT ![t].pc = "ret", ![t].ok = r.ok, ![t].got = r.value]
          /\ mutex_' = Unlock(mutex_, t)
          /\ UNCHANGED <<skip_list_, ret, ref, storeVars, ub, hist>>
     ELSE Undefined(t, "search")

\* insert_element under the exclusive lock: walk, update or splice, return
InsertBody(t, flips) ==
  /\ Running
  /\ InWrite(t) /\ th[t].op = "insert"
  /\ IF Racing(t, "insert") = {}
     THEN LET r == insert_element(skip_list_, th[t].key, th[t].value, flips) IN
          /\ skip_list_' = r.s
          /\ ref' = [k \in DOMAIN ref \cup {th[t].key} |->
                       IF k = th[t].key THEN th[t].value ELSE ref[k]]
          /\ th' = [th EXCEPT ![t].pc = "ret", ![t].ok = r.ok]
          /\ mutex_' = Unlock(mutex_, t)
          /\ UNCHANGED <<ret, storeVars, ub, hist>>
     ELSE Undefined(t, "insert")

\* delete_element under the exclusive lock: walk, unlink and delete, return
DeleteBody(t) ==
  /\ Running
  /\ InWrite(t) /\ th[t].op = "delete"
  /\ IF Racing(t, "delete") = {}
     THEN LET r == delete_element(skip_list_, th[t].key) IN
          /\ skip_list_' = r.s
          /\ ref' = [k \in DOMAIN ref \ {th[t].key} |-> ref[k]]
          /\ th' = [th EXCEPT ![t].pc = "ret", ![t].ok = r.ok]
          /\ mutex_' = Unlock(mutex_, t)
          /\ UNCHANGED <<ret, storeVars, ub, hist>>
     ELSE Undefined(t, "delete")

\* the caller has the result
Return(t) ==
  /\ Running
  /\ th[t].pc = "ret"
  /\ th' = [th EXCEPT ![t] = Idle]
  /\ UNCHANGED <<skip_list_, ret, ref, storeVars, mutex_, ub, hist>>

\* clear(), which takes no lock: Node* current = header_->forward_[0]
CallClear(t) ==
  /\ Running
  /\ th[t].pc = "idle"
  /\ hist' = [keys |-> {}, insertsOnly |-> FALSE, overlapped |-> hist.overlapped,
              calls |-> hist.calls]
  /\ IF Racing(t, "clear") = {}
     THEN /\ th' = [th EXCEPT ![t] = [Idle EXCEPT !.pc = "c_loop", !.op = "clear",
                                         !.node = skip_list_.forward_[header_][0]]]
          /\ UNCHANGED <<skip_list_, ret, ref, storeVars, mutex_, ub>>
     ELSE /\ ub' = {"clear"} \cup {th[u].op : u \in Racing(t, "clear")}
          /\ th' = [th EXCEPT ![t] = [Idle EXCEPT !.pc = "ret", !.op = "clear"]]
          /\ UNCHANGED <<skip_list_, ret, ref, storeVars, mutex_>>

\* while (current) { next = current->forward_[0]; delete current; current = next; }
ClearStep(t) ==
  /\ Running
  /\ th[t].pc = "c_loop"
  /\ IF Racing(t, "clear") # {}
     THEN Undefined(t, "clear")
     ELSE IF th[t].node = NULL
          THEN /\ th' = [th EXCEPT ![t].pc = "c_fill"]
               /\ UNCHANGED <<skip_list_, ret, ref, storeVars, mutex_, ub, hist>>
          ELSE /\ th' = [th EXCEPT ![t].node = skip_list_.forward_[th[t].node][0]]
               /\ skip_list_' = DeleteNode(skip_list_, th[t].node)
               /\ UNCHANGED <<ret, ref, storeVars, mutex_, ub, hist>>

\* std::fill(header_->forward_.begin(), header_->forward_.end(), nullptr)
ClearFill(t) ==
  /\ Running
  /\ th[t].pc = "c_fill"
  /\ IF Racing(t, "clear") # {}
     THEN Undefined(t, "clear")
     ELSE /\ skip_list_' = ResetHeader(skip_list_)
          /\ th' = [th EXCEPT ![t].pc = "c_reset"]
          /\ UNCHANGED <<ret, ref, storeVars, mutex_, ub, hist>>

\* current_level_ = 0; element_count_ = 0; and clear returns
ClearReset(t) ==
  /\ Running
  /\ th[t].pc = "c_reset"
  /\ IF Racing(t, "clear") # {}
     THEN Undefined(t, "clear")
     ELSE /\ skip_list_' = [skip_list_ EXCEPT !.current_level_ = 0,
                                               !.element_count_ = 0]
          /\ ref' = [k \in {} |-> <<>>]
          /\ th' = [th EXCEPT ![t].pc = "ret"]
          /\ UNCHANGED <<ret, storeVars, mutex_, ub, hist>>

\* process_all(func), which takes no lock: Node* node = header_->forward_[0]
CallTraverse(t) ==
  /\ Running
  /\ th[t].pc = "idle"
  /\ hist' = [keys |-> {}, insertsOnly |-> FALSE, overlapped |-> hist.overlapped,
              calls |-> hist.calls]
  /\ IF Racing(t, "traverse") = {}
     THEN /\ th' = [th EXCEPT ![t] = [Idle EXCEPT !.pc = "p_loop", !.op = "traverse",
                                         !.node = skip_list_.forward_[header_][0]]]
          /\ UNCHANGED <<skip_list_, ret, ref, storeVars, mutex_, ub>>
     ELSE /\ ub' = {"traverse"} \cup {th[u].op : u \in Racing(t, "traverse")}
          /\ th' = [th EXCEPT ![t] = [Idle EXCEPT !.pc = "ret", !.op = "traverse"]]
          /\ UNCHANGED <<skip_list_, ret, ref, storeVars, mutex_>>

\* while (node != nullptr) { func(node->key_, node->value_); node = node->forward_[0]; }
TraverseStep(t) ==
  /\ Running
  /\ th[t].pc = "p_loop"
  /\ IF Racing(t, "traverse") # {}
     THEN Undefined(t, "traverse")
     ELSE IF th[t].node = NULL
          THEN /\ th' = [th EXCEPT ![t].pc = "ret"]
               /\ UNCHANGED <<skip_list_, ret, ref, storeVars, mutex_, ub, hist>>
          ELSE /\ th' = [th EXCEPT ![t].node = skip_list_.forward_[th[t].node][0]]
               /\ UNCHANGED <<skip_list_, ret, ref, storeVars, mutex_, ub, hist>>

\* the draws of get_random_level open to the thread's insert_element
ConcDraws(t) ==
  IF Running /\ InWrite(t) /\ th[t].op = "insert" /\ Racing(t, "insert") = {}
  THEN Draws(skip_list_, th[t].key)
  ELSE {NoFlips}

NextConc ==
  \E t \in Threads :
    \/ \E key \in ConcKeys : Call(t, "search", key, <<>>)
    \/ \E key \in ConcKeys, value \in ConcValues : Call(t, "insert", key, value)
    \/ \E key \in ConcKeys : Call(t, "delete", key, <<>>)
    \/ LockShared(t)
    \/ LockUnique(t)
    \/ SearchBody(t)
    \/ \E flips \in ConcDraws(t) : InsertBody(t, flips)
    \/ DeleteBody(t)
    \/ Return(t)
    \/ CallClear(t)
    \/ ClearStep(t)
    \/ ClearFill(t)
    \/ ClearReset(t)
    \/ CallTraverse(t)
    \/ TraverseStep(t)

SpecConc == Init /\ [][NextConc]_vars

\* ------------------------------------------------------------- finitely many calls
\* threads that call search_element, insert_element and delete_element only, and
\* MaxCalls times in all
CallCounted(t, op, key, value) ==
  /\ hist.calls < MaxCalls
  /\ Running
  /\ th[t].pc = "idle"
  /\ op = "insert" => Cardinality(FreeIds(skip_list_)) >= Cardinality(Threads)
  /\ th' = [th EXCEPT ![t] = [Idle EXCEPT !.pc = "lock", !.op = op, !.key = key,
                                         !.value = value]]
  /\ hist' = HistAfter(t, op, key, hist.calls + 1)
  /\ UNCHANGED <<skip_list_, ret, ref, storeVars, mutex_, ub>>

\* a step of the thread inside its call: taking the lock, the body, the return
Step(t) ==
  \/ LockShared(t)
  \/ LockUnique(t)
  \/ SearchBody(t)
  \/ \E flips \in ConcDraws(t) : InsertBody(t, flips)
  \/ DeleteBody(t)
  \/ Return(t)

NextLive ==
  \E t \in Threads :
    \/ \E key \in ConcKeys : CallCounted(t, "search", key, <<>>)
    \/ \E key \in ConcKeys, value \in ConcValues : CallCounted(t, "insert", key, value)
    \/ \E key \in ConcKeys : CallCounted(t, "delete", key, <<>>)
    \/ LockShared(t)
    \/ LockUnique(t)
    \/ SearchBody(t)
    \/ \E flips \in ConcDraws(t) : InsertBody(t, flips)
    \/ DeleteBody(t)
    \/ Return(t)

\* whether the thread can take a step of its call: it is in the body or at the
\* return, or at the lock and the lock can be taken
CanStep(t) ==
  \/ th[t].pc \in {"body", "ret"}
  \/ th[t].pc = "lock" /\ th[t].op = "search" /\ CanLockShared(mutex_)
  \/ th[t].pc = "lock" /\ th[t].op \in {"insert", "delete"} /\ CanLockUnique(mutex_)

\* what a step of the thread's call does to its position: from the lock into the
\* body, from the body to the return with some result, from the return to idle
Advance(t) ==
  /\ CanStep(t)
  /\ \/ /\ th[t].pc = "lock"
        /\ \E expect \in {Idle.expect, Lookup(th[t].key)} :
             th' = [th EXCEPT ![t].pc = "body", ![t].expect = expect]
     \/ /\ th[t].pc = "body"
        /\ \E ok \in BOOLEAN, got \in ConcValues \cup {<<>>} :
             th' = [th EXCEPT ![t].pc = "ret", ![t].ok = ok, ![t].got = got]
     \/ /\ th[t].pc = "ret"
        /\ th' = [th EXCEPT ![t] = Idle]

\* the scheduler runs every thread that can run: a thread that is in its call, or at
\* a lock that stays free, takes its step.  The steps of thread t are the steps that
\* move its position, so the condition is stated on Advance(t) and th.
Fairness == \A t \in Threads : WF_th(Advance(t))

SpecLive == Init /\ [][NextLive]_vars /\ Fairness

\* ------------------------------------------------------------- properties
\* the keys search_element reports found
FoundKeys(s) == {k \in Keys : search_element(s, k, <<>>).ok}

\* C1: at every quiescent point the set of keys search reports found is the set
\* of keys inserted and not deleted (or cleared) since: the keys of the reference map.
C1_FoundIsInsertedMinusDeleted == FoundKeys(skip_list_) = DOMAIN ref

\* a successful delete has just removed a key while other keys stay
C1_Witness ==
  /\ ret.op = "delete" /\ ret.ok
  /\ DOMAIN ref # {}
  /\ FoundKeys(skip_list_) # {}

\* C2: an insert of a key that is already present changes that node's value and
\* nothing else (count, levels, maximum level, links, allocated nodes), and a search
\* of the key then returns the new value.
C2_ReinsertOnlyChangesValue ==
  [][(ret'.op = "insert" /\ ret'.key \in KeysOf(skip_list_)) =>
         /\ skip_list_'.element_count_ = skip_list_.element_count_
         /\ skip_list_'.node_level_ = skip_list_.node_level_
         /\ skip_list_'.current_level_ = skip_list_.current_level_
         /\ skip_list_'.forward_ = skip_list_.forward_
         /\ skip_list_'.allocated = skip_list_.allocated
         /\ skip_list_'.key_ = skip_list_.key_
         /\ \A n \in skip_list_.allocated :
              skip_list_'.value_[n] =
                IF n = NodeOf(skip_list_, ret'.key)
                THEN ret'.value
                ELSE skip_list_.value_[n]
         /\ search_element(skip_list_', ret'.key, <<>>)
              = [ok |-> TRUE, value |-> ret'.value]
    ]_vars

\* an insert has just found its key present, among other keys
C2_Witness ==
  /\ ret.op = "insert" /\ ret.present
  /\ skip_list_.element_count_ >= 2

\* C3: a delete of a key that is not in the index returns false and changes
\* nothing (count, maximum level, nodes, links, keys, values), so repeating it
\* gives the same result.
C3_DeleteAbsentChangesNothing ==
  [][(ret'.op = "delete" /\ ret'.key \notin KeysOf(skip_list_)) =>
         /\ ret'.ok = FALSE
         /\ skip_list_' = skip_list_
         /\ delete_element(skip_list_', ret'.key) = [s |-> skip_list_', ok |-> FALSE]
    ]_vars

\* a delete has just missed its key in an index that holds other keys
C3_Witness ==
  /\ ret.op = "delete" /\ ~ret.present /\ ~ret.ok
  /\ skip_list_.element_count_ >= 1

\* C9: every node of assigned level L is on the successor chain of each level
\* 0..L and of no level above L.
C9_LevelsNested ==
  /\ \A i \in Levels : Chain(skip_list_, i) \subseteq skip_list_.allocated
  /\ \A n \in skip_list_.allocated : \A i \in Levels :
       (n \in Chain(skip_list_, i)) <=> (i <= skip_list_.node_level_[n])

\* after a delete, a tall node and a level-0 node remain
C9_Witness ==
  /\ ret.op = "delete" /\ ret.ok
  /\ \E n \in skip_list_.allocated : skip_list_.node_level_[n] >= 1
  /\ \E n \in skip_list_.allocated : skip_list_.node_level_[n] = 0

\* C10: every header successor above current_level_ is empty, the header's
\* successor at current_level_ is non-empty unless the index is empty, and an
\* empty index has current_level_ 0.
C10_MaxLevelTight ==
  /\ skip_list_.current_level_ \in Levels
  /\ \A i \in Levels :
       i > skip_list_.current_level_ => skip_list_.forward_[header_][i] = NULL
  /\ Chain(skip_list_, 0) # {} =>
       skip_list_.forward_[header_][skip_list_.current_level_] # NULL
  /\ Chain(skip_list_, 0) = {} => skip_list_.current_level_ = 0

\* a delete has left only level-0 nodes: the maximum level is back at 0
C10_Witness ==
  /\ ret.op = "delete" /\ ret.ok
  /\ skip_list_.element_count_ >= 1
  /\ skip_list_.current_level_ = 0

\* the values of the visited pairs hold none of the characters
ValuesExclude(entries, chars) ==
  \A n \in DOMAIN entries :
    \A c \in DOMAIN entries[n].value : entries[n].value[c] \notin chars

\* C4 as stated: whenever the values of the dumped pairs hold no delimiter, a
\* store constructed on the dumped file holds exactly the dumped pairs, in the
\* dumped (ascending) order.
C4_RoundTripAsStated ==
  (ret.op = "construct" /\ ret.ok /\ ValuesExclude(dumped, {Delimiter})) =>
    process_all(skip_list_) = dumped

\* C4, amended: whenever the values of the dumped pairs hold neither the delimiter
\* nor a line end, a store constructed on the dumped file holds exactly the dumped
\* pairs, in the dumped (ascending) order.
C4_RoundTrip ==
  (ret.op = "construct" /\ ret.ok /\ ValuesExclude(dumped, {Delimiter, NewLine})) =>
    process_all(skip_list_) = dumped

\* a store has been constructed on a file that a dump of two such pairs wrote
C4_Witness ==
  /\ ret.op = "construct" /\ ret.ok
  /\ Len(dumped) >= 2
  /\ ValuesExclude(dumped, {Delimiter, NewLine})
  /\ process_all(skip_list_) = dumped

\* ------------------------------------------------------------- threads and the lock
\* C5: in every interleaving of searches with writers (insert, delete, clear) no
\* search takes part in undefined behaviour, and every search returns the (found,
\* value) pair the calls that held the lock before it leave at its key.
C5_SearchesLinearizable ==
  /\ "search" \notin ub
  /\ \A t \in Threads :
       (th[t].pc = "ret" /\ th[t].op = "search") =>
          [ok |-> th[t].ok, value |-> th[t].got] = th[t].expect

\* C6: of search, insert and delete, the threads between taking the lock and
\* releasing it are none, one insert or delete, or searches only; and once inserts
\* (and searches) from several threads are all that was called and all have
\* returned, the index holds exactly the distinct inserted keys.
C6_ReadersWritersOfSearchInsertDelete ==
  /\ Cardinality({t \in Threads : InWrite(t)}) <= 1
  /\ (\E t \in Threads : InWrite(t)) => ~(\E t \in Threads : InSearch(t))
  /\ (hist.insertsOnly /\ \A t \in Threads : th[t].pc = "idle") =>
        /\ KeysOf(skip_list_) = hist.keys
        /\ {k \in ConcKeys : search_element(skip_list_, k, <<>>).ok} = hist.keys
        /\ skip_list_.element_count_ = Cardinality(hist.keys)

\* inserts of two keys that were in flight together have all returned, and both
\* threads are now inside search at once
C6_Witness ==
  /\ hist.insertsOnly /\ hist.overlapped
  /\ hist.keys = ConcKeys
  /\ KeysOf(skip_list_) = ConcKeys
  /\ \A t \in Threads : InSearch(t)

\* C7: while a clear is running its thread owns mutex_ exclusively, and no other
\* thread is inside a search, traverse, insert, delete or clear.
C7_ClearHoldsLockExclusively ==
  \A t \in Threads :
    InClear(t) =>
      /\ mutex_.writer = t
      /\ \A u \in Threads \ {t} : ~Inside(u)

\* C8: while a traverse is running its thread owns mutex_ in shared mode, and no
\* thread is inside an insert, delete or clear.
C8_TraverseHoldsLockShared ==
  \A t \in Threads :
    InTraverse(t) =>
      /\ t \in mutex_.readers
      /\ \A u \in Threads \ {t} : ~(InWrite(u) \/ InClear(u))

\* ------------------------------------------------------------- order, count, clear
\* from node on, the successor links of level i lead through allocated nodes of
\* strictly increasing keys to an empty link
RECURSIVE Increasing(_, _, _)
Increasing(s, node, i) ==
  \/ node = NULL
  \/ /\ node \in s.allocated
     /\ i \in DOMAIN s.forward_[node]
     /\ LET next == s.forward_[node][i] IN
        /\ next # NULL => (next \in s.allocated /\ s.key_[node] < s.key_[next])
        /\ Increasing(s, next, i)

\* C11: at every level the successor links from the header visit keys in strictly
\* increasing order and end at an empty link, and no two nodes hold the same key.
C11_KeysStrictlyIncreasing ==
  /\ \A i \in Levels : Increasing(skip_list_, skip_list_.forward_[header_][i], i)
  /\ \A n, m \in skip_list_.allocated :
       skip_list_.key_[n] = skip_list_.key_[m] => n = m

\* an insert has just put a new key between two others, with a level above 0 in use
C11_Witness ==
  /\ ret.op = "insert" /\ ~ret.present
  /\ \E lo, hi \in KeysOf(skip_list_) : lo < ret.key /\ ret.key < hi
  /\ skip_list_.current_level_ >= 1

\* C12: the element count is the number of nodes on level 0; an insert of a new key
\* raises it by one, a successful delete lowers it by one, clear makes it 0, and an
\* insert of a present key, a failed delete and a search leave it as it is.
C12_CountIsLevel0Nodes ==
  /\ [](skip_list_.element_count_ = Cardinality(Chain(skip_list_, 0)))
  /\ [][skip_list_'.element_count_ =
          IF ret'.op = "insert" /\ ret'.key \notin KeysOf(skip_list_)
          THEN skip_list_.element_count_ + 1
          ELSE IF ret'.op = "delete" /\ ret'.ok
               THEN skip_list_.element_count_ - 1
               ELSE IF ret'.op = "clear"
                    THEN 0
                    ELSE skip_list_.element_count_]_vars

\* a successful delete has just brought the count from three to two
C12_Witness ==
  /\ ret.op = "delete" /\ ret.ok
  /\ skip_list_.element_count_ = 2
  /\ Cardinality(Chain(skip_list_, 0)) = 2

\* C13: after clear, from any state, every successor slot of the header is empty,
\* the maximum level and the count are 0 and no node is left, so every search
\* reports not found; the index is the freshly constructed one, and every insert
\* acts on it as on a fresh index.
C13_ClearGivesFreshIndex ==
  ret.op = "clear" =>
    /\ \A i \in Levels : skip_list_.forward_[header_][i] = NULL
    /\ skip_list_.current_level_ = 0
    /\ skip_list_.element_count_ = 0
    /\ skip_list_ = NewSkipList
    /\ FoundKeys(skip_list_) = {}
    /\ \A key \in Keys, value \in Values, flips \in FlipSeqs :
         insert_element(skip_list_, key, value, flips)
           = insert_element(NewSkipList, key, value, flips)

\* clear has just emptied an index that had a level above 0 in use
C13_Witness ==
  /\ ret.op = "clear" /\ ret.present
  /\ skip_list_.allocated = {}

\* ------------------------------------------------------------- the snapshot file
\* the pairs search_element finds, by ascending key from k on
RECURSIVE EntriesFrom(_, _)
EntriesFrom(s, k) ==
  IF k > MaxKey
  THEN <<>>
  ELSE LET r == search_element(s, k, <<>>) IN
       (IF r.ok THEN <<[key |-> k, value |-> r.value]>> ELSE <<>>)
         \o EntriesFrom(s, k + 1)

\* what one dump leaves: the file is exactly the entries of the index, each once,
\* by ascending key, each written as key, delimiter, value, line end
DumpedExactly ==
  /\ file.exists
  /\ dumped = EntriesFrom(skip_list_, 0)
  /\ Len(dumped) = skip_list_.element_count_
  /\ file.text = FormatEntries(EntriesFrom(skip_list_, 0))

\* C14 as stated: a dump that opens the file leaves exactly one line per entry, each
\* entry once, by ascending key, and nothing of the previous content; the traversal
\* does not change the index.
C14_DumpOneLinePerEntryAsStated ==
  /\ []((ret.op = "dump" /\ ret.ok) =>
          /\ DumpedExactly
          /\ Len(GetLines(file.text, <<>>)) = skip_list_.element_count_)
  /\ [][ret'.op = "dump" => skip_list_' = skip_list_]_vars

\* C14, amended: a dump that opens the file leaves exactly the text key, delimiter,
\* value, line end of each entry, each entry once, by ascending key, and nothing of
\* the previous content; these are one line per entry when no value holds a line
\* end; the traversal does not change the index.
C14_DumpOneRecordPerEntry ==
  /\ []((ret.op = "dump" /\ ret.ok) =>
          /\ DumpedExactly
          /\ ValuesExclude(dumped, {NewLine}) =>
               Len(GetLines(file.text, <<>>)) = skip_list_.element_count_)
  /\ [][ret'.op = "dump" => skip_list_' = skip_list_]_vars

\* a dump of two entries without line ends has just replaced a file that had content
C14_Witness ==
  /\ ret.op = "dump" /\ ret.ok /\ ret.present
  /\ Len(dumped) = 2
  /\ ValuesExclude(dumped, {NewLine})
  /\ Len(GetLines(file.text, <<>>)) = 2

\* C15: a store constructed on a path whose file is missing or does not open is
\* empty: the index is the new one, its count is 0 and every get reports not found.
C15_ConstructWithoutFileIsEmpty ==
  (ret.op = "construct" /\ ~ret.ok) =>
    /\ alive
    /\ skip_list_ = NewSkipList
    /\ skip_list_.element_count_ = 0
    /\ \A key \in Keys : ~search_element(skip_list_, key, <<>>).ok

\* a store has just been constructed on a file that holds entries but did not open
C15_Witness ==
  /\ ret.op = "construct" /\ ~ret.ok
  /\ file.exists
  /\ CountEntries(GetLines(file.text, <<>>)) >= 1
  /\ skip_list_.element_count_ = 0

\* the lines that hold the delimiter, in their order
RECURSIVE WellFormed(_)
WellFormed(lines) ==
  IF lines = <<>>
  THEN <<>>
  ELSE (IF HasDelimiter(Head(lines)) THEN <<Head(lines)>> ELSE <<>>)
         \o WellFormed(Tail(lines))

\* the entries a load of lines into index s leaves (they do not depend on the draws)
LoadedEntries(s, lines) ==
  process_all(LoadLines(s, lines, [n \in 1..Len(lines) |-> NoFlips], 1))

\* C16: a load that opens the file leaves the entries that loading only the lines
\* with the delimiter leaves: a line without it adds no entry, changes none and
\* does not stop the lines after it from being loaded.
C16_LinesWithoutDelimiterSkipped ==
  [][(ret'.op \in {"construct", "load"} /\ ret'.ok) =>
        LET before == IF ret'.op = "construct" THEN NewSkipList ELSE skip_list_
            lines == GetLines(file.text, <<>>)
        IN /\ process_all(skip_list_') = LoadedEntries(before, WellFormed(lines))
           /\ WellFormed(lines) = <<>> =>
                process_all(skip_list_') = process_all(before)
    ]_vars

\* a store has just been constructed on a file in which a line without the
\* delimiter comes before a line with it, and the entry of the later line is there
C16_Witness ==
  /\ ret.op = "construct" /\ ret.ok
  /\ LET lines == GetLines(file.text, <<>>) IN
     \E i, j \in DOMAIN lines :
       /\ i < j
       /\ ~HasDelimiter(lines[i])
       /\ HasDelimiter(lines[j])
       /\ ParseInt(KeyStr(lines[j], Find(lines[j], Delimiter))) \in KeysOf(skip_list_)

\* C17: a dump or a load whose file does not open changes neither the index (nodes,
\* keys, values, levels, links, count) nor the file nor the store, so every later
\* call meets the state it would have met without it; a construction whose load
\* does not open the file gives the new index.
C17_FailedPersistenceChangesNothing ==
  [][/\ (ret'.op \in {"dump", "load"} /\ ~ret'.ok) =>
          /\ skip_list_' = skip_list_
          /\ file' = file
          /\ alive' = alive
     /\ (ret'.op = "construct" /\ ~ret'.ok) =>
          /\ skip_list_' = NewSkipList
          /\ file' = file
    ]_vars

\* a load on a store that holds entries has just failed to open an existing file
C17_Witness ==
  /\ ret.op = "load" /\ ~ret.ok
  /\ file.exists
  /\ skip_list_.element_count_ >= 1

\* C18: the store's delete hands removed to its caller: true exactly when the key
\* was present (and is now removed), false when it was absent.
C18_DelReturnsRemoved ==
  ret.op = "del" =>
    /\ "del" \in StoreReturns
    /\ ret.ok = ret.present
    /\ ~search_element(skip_list_, ret.key, <<>>).ok

\* the successor slots, of the header and of the nodes other than target, that
\* point to target
SlotsTo(s, target) ==
  {<<n, i>> \in (DOMAIN s.forward_ \ {target}) \X Levels :
     i \in DOMAIN s.forward_[n] /\ s.forward_[n][i] = target}

\* C19: when delete finds its key, no successor slot of the header or of another
\* node points to the target once the unlink loop is done (the moment the node is
\* deleted), whether the loop ran to current_level_ or was left by its break; and
\* none points to it afterwards.
C19_UnlinkedBeforeDeallocated ==
  [][(ret'.op = "delete" /\ ret'.ok) =>
        \A target \in {NodeOf(skip_list_, ret'.key)} :
          \A unlinked \in {Unlink(skip_list_, FindUpdate(skip_list_, ret'.key),
                                  target, 0)} :
            /\ SlotsTo(skip_list_, target) # {}
            /\ SlotsTo(unlinked, target) = {}
            /\ target \in unlinked.allocated
            /\ target \notin skip_list_'.allocated
            /\ SlotsTo(skip_list_', target) = {}
    ]_vars

\* a delete has just removed a node shorter than current_level_: its unlink loop was
\* left by the break, and taller nodes remain
C19_Witness ==
  /\ ret.op = "delete" /\ ret.ok /\ ret.broke
  /\ skip_list_.current_level_ >= 1
  /\ skip_list_.element_count_ >= 1

\* C20: every node is deallocated exactly once and never read afterwards: on an
\* index that holds nodes no delete or clear, which deallocate them, runs unordered
\* with another operation that reads or deallocates nodes; and whenever no clear is
\* under way the allocated nodes are exactly those on level 0 (none leaked, none
\* missing).
C20_NodeLifetime ==
  /\ (ub \cap {"delete", "clear"} # {}) => skip_list_.element_count_ = 0
  /\ (Running /\ \A t \in Threads : ~InClear(t)) =>
        skip_list_.allocated = Chain(skip_list_, 0)

\* ------------------------------------------------------------- the insert splice
\* C21: when an insert of a new key draws a level above current_level_, update[i] is
\* the header at every level from the old current_level_ + 1 to the drawn level, the
\* new current_level_ is the drawn level, and after the insert the header's successor
\* at each of those levels is the new node, whose successor there is empty.
C21_NewLevelsHangOnHeader ==
  [][(ret'.op = "insert" /\ ret'.key \notin KeysOf(skip_list_)) =>
        \A new_node \in {NodeOf(skip_list_', ret'.key)} :
          \A random_level \in {skip_list_'.node_level_[new_node]} :
            random_level > skip_list_.current_level_ =>
              /\ skip_list_'.current_level_ = random_level
              /\ \A i \in (skip_list_.current_level_ + 1)..random_level :
                   /\ RaiseUpdate(skip_list_, FindUpdate(skip_list_, ret'.key),
                                  random_level)[i] = header_
                   /\ skip_list_'.forward_[header_][i] = new_node
                   /\ skip_list_'.forward_[new_node][i] = NULL
    ]_vars

\* an insert among other keys has just made the only node of the top level, two
\* levels up: the level was above the maximum before
C21_Witness ==
  /\ ret.op = "insert" /\ ~ret.present
  /\ skip_list_.element_count_ >= 2
  /\ skip_list_.current_level_ = MAX_LEVEL
  /\ Chain(skip_list_, MAX_LEVEL) = {NodeOf(skip_list_, ret.key)}
  /\ Chain(skip_list_, MAX_LEVEL - 1) = {NodeOf(skip_list_, ret.key)}

\* C22: whatever is drawn, get_random_level returns a level in 0..MAX_LEVEL; the
\* header owns the successor slots 0..MAX_LEVEL; and for every insert of a new key
\* that can be made, each predecessor update[i], i in 0..drawn level, that the splice
\* dereferences is the header or an allocated node and owns slot i, and the new node
\* owns the slots 0..drawn level.
C22_SpliceStaysInBounds ==
  /\ \A flips \in FlipSeqs : get_random_level(flips) \in 0..MAX_LEVEL
  /\ DOMAIN skip_list_.forward_[header_] = 0..MAX_LEVEL
  /\ \A key \in Keys \ KeysOf(skip_list_) : \A flips \in FlipSeqs :
       \A random_level \in {get_random_level(flips)} :
         \A update \in {RaiseUpdate(skip_list_, FindUpdate(skip_list_, key),
                                    random_level)} :
           /\ \A i \in 0..random_level :
                /\ update[i] # NULL
                /\ update[i] \in {header_} \cup skip_list_.allocated
                /\ i \in DOMAIN skip_list_.forward_[update[i]]
           /\ \A s \in {insert_element(skip_list_, key, <<"a">>, flips).s} :
                DOMAIN s.forward_[NodeOf(s, key)] = 0..random_level

\* an insert has just spliced a node of the truncated level MAX_LEVEL behind another
\* node that is its predecessor on a level above 0
C22_Witness ==
  /\ ret.op = "insert" /\ ~ret.present
  /\ skip_list_.node_level_[NodeOf(skip_list_, ret.key)] = MAX_LEVEL
  /\ \E n \in skip_list_.allocated : \E i \in 1..skip_list_.node_level_[n] :
       skip_list_.forward_[n][i] = NodeOf(skip_list_, ret.key)

\* C23: a search, of a key that is found or of one that is not, leaves the index as
\* it was: the allocated nodes, their keys, values, levels and successor links, the
\* header's links, current_level_ and element_count_ are the same after the call.
C23_SearchChangesNothing ==
  [][ret'.op = "search" =>
        /\ skip_list_'.allocated = skip_list_.allocated
        /\ skip_list_'.key_ = skip_list_.key_
        /\ skip_list_'.value_ = skip_list_.value_
        /\ skip_list_'.node_level_ = skip_list_.node_level_
        /\ skip_list_'.forward_ = skip_list_.forward_
        /\ skip_list_'.current_level_ = skip_list_.current_level_
        /\ skip_list_'.element_count_ = skip_list_.element_count_
        /\ ret'.ok = (ret'.key \in KeysOf(skip_list_))
    ]_vars

\* a search has just found its key in an index of several nodes and levels
C23_Witness ==
  /\ ret.op = "search" /\ ret.ok /\ ret.value # <<>>
  /\ skip_list_.element_count_ >= 2
  /\ skip_list_.current_level_ >= 1

\* C24: the result of insert tells its caller which case occurred: in every state,
\* an insert of a key that is present (updated) and an insert of a key that is
\* absent (inserted) return different results.
C24_InsertResultTellsCase ==
  \A key \in KeysOf(skip_list_), other \in Keys \ KeysOf(skip_list_) :
    \A value \in Values, flips \in FlipSeqs :
      insert_element(skip_list_, key, value, NoFlips).ok
        # insert_element(skip_list_, other, value, flips).ok

\* ------------------------------------------------------------- the delimiter in a value
\* the text holds the character
Holds(text, ch) == \E c \in DOMAIN text : text[c] = ch

\* C25 as stated: after a dump and a construction on the dumped file, an entry whose
\* value holds the delimiter is not reproduced: the key is not found with that value.
C25_DelimiterInValueCorruptsAsStated ==
  (ret.op = "construct" /\ ret.ok) =>
    \A n \in DOMAIN dumped :
      Holds(dumped[n].value, Delimiter) =>
        search_element(skip_list_, dumped[n].key, <<>>)
          # [ok |-> TRUE, value |-> dumped[n].value]

\* C25, amended: load splits a line at its first delimiter and the text of an int
\* key holds none, so after a dump in which no value holds a line end and a
\* construction on the dumped file, every entry whose value holds the delimiter is
\* found again with exactly its value, and the index holds as many entries as were
\* dumped.
C25_DelimiterInValueReloads ==
  (ret.op = "construct" /\ ret.ok /\ ValuesExclude(dumped, {NewLine})) =>
    /\ \A n \in DOMAIN dumped :
         Holds(dumped[n].value, Delimiter) =>
           search_element(skip_list_, dumped[n].key, <<>>)
             = [ok |-> TRUE, value |-> dumped[n].value]
    /\ skip_list_.element_count_ = Len(dumped)

\* a store has been constructed on the dump of two entries, one of them with the
\* delimiter in its value, and that value is found again
C25_Witness ==
  /\ ret.op = "construct" /\ ret.ok
  /\ Len(dumped) = 2
  /\ ValuesExclude(dumped, {NewLine})
  /\ \E n \in DOMAIN dumped :
       /\ Holds(dumped[n].value, Delimiter)
       /\ search_element(skip_list_, dumped[n].key, <<>>).value = dumped[n].value

\* ------------------------------------------------------------- results and levels
\* the pairs of the reference map, by ascending key from k on
RECURSIVE RefEntries(_)
RefEntries(k) ==
  IF k > MaxKey
  THEN <<>>
  ELSE (IF k \in DOMAIN ref THEN <<[key |-> k, value |-> ref[k]]>> ELSE <<>>)
         \o RefEntries(k + 1)

\* C26: what the calls return does not depend on the levels drawn.  The reference
\* map is built from the calls alone, whatever was drawn; in every state the
\* traversal, the count, and the result of every search and every delete are those
\* the reference map gives, and an insert of a new key returns the same result and
\* leaves the same traversal and count with every draw.
C26_ResultsIndependentOfLevels ==
  /\ process_all(skip_list_) = RefEntries(1)
  /\ skip_list_.element_count_ = Cardinality(DOMAIN ref)
  /\ \A key \in Keys :
       /\ search_element(skip_list_, key, <<>>) = Lookup(key)
       /\ delete_element(skip_list_, key).ok = (key \in DOMAIN ref)
  /\ \A key \in Keys \ KeysOf(skip_list_), value \in Values :
       \A plain \in {insert_element(skip_list_, key, value, NoFlips)} :
         \A flips \in FlipSeqs :
           \A drawn \in {insert_element(skip_list_, key, value, flips)} :
             /\ drawn.ok = plain.ok
             /\ process_all(drawn.s) = process_all(plain.s)
             /\ drawn.s.element_count_ = plain.s.element_count_

\* an insert has just made a node of a level above 0 next to nodes of level 0 and of
\* other levels: the structure differs from the one all-zero draws give
C26_Witness ==
  /\ ret.op = "insert" /\ ~ret.present
  /\ skip_list_.node_level_[NodeOf(skip_list_, ret.key)] >= 1
  /\ \E n \in skip_list_.allocated : skip_list_.node_level_[n] = 0
  /\ skip_list_.element_count_ = MaxKey
  /\ process_all(skip_list_) = RefEntries(1)

\* ------------------------------------------------------------- every call returns
\* C27: with threads that make finitely many search, insert and delete calls, a
\* thread that has returned from its call, by whichever return path, holds the lock
\* no longer; the successor links of every level lead in increasing key order to an
\* empty link, so every walk ends; and every call that has come to the lock
\* eventually returns.  While a thread is in a call some thread can take a step (no
\* deadlock), and the steps of a thread are exactly the steps that move its position.
C27_EveryCallReturns ==
  /\ [](\A t \in Threads :
          th[t].pc \in {"idle", "ret"} =>
            (mutex_.writer # t /\ t \notin mutex_.readers))
  /\ [](\A i \in Levels : Increasing(skip_list_, skip_list_.forward_[header_][i], i))
  /\ []((\E t \in Threads : th[t].pc # "idle") => \E u \in Threads : CanStep(u))
  /\ [][\A t \in Threads :
          (th[t].pc # "idle" /\ th'[t] # th[t]) <=> Advance(t)]_vars
  /\ \A t \in Threads : (th[t].pc = "lock") ~> (th[t].pc = "ret")

\* a delete has returned by its not-found path and an insert has returned, the one
\* key of the index being its key; all calls are used up and the lock is free
C27_Witness ==
  /\ hist.calls = MaxCalls
  /\ \E t, u \in Threads :
       /\ th[t].pc = "ret" /\ th[t].op = "delete" /\ ~th[t].ok
       /\ th[u].pc = "ret" /\ th[u].op = "insert"
       /\ th[u].key \in KeysOf(skip_list_)
  /\ skip_list_.element_count_ = 1
  /\ DOMAIN ref = KeysOf(skip_list_)
  /\ mutex_ = [writer |-> NoThread, readers |-> {}]

====
